---- MODULE Spec2Model ----
(***************************************************************************)
(* A model of the Machine interpreter (src/unnamed/part_001): lifecycle,   *)
(* event dispatch, the effect sequence of a transition, delayed ("after")  *)
(* transitions, recurring ("every") activities, activities with cleanups,  *)
(* spawned child machines and the listener sets.                           *)
(*                                                                         *)
(* A world w is a record [mach, log, err, seen]: mach maps each Machine   *)
(* instance of a fixed pool to its fields, log is the sequence of calls    *)
(* (declared actions, listener calls, steps of the effect sequence) made   *)
(* by the operation in progress, err says that the operation threw, seen   *)
(* that a function it called ran while a Running machine had value null.   *)
(* Every method of the class is an operator from worlds to worlds; every   *)
(* step of Next is one call of a public method, or one host timer          *)
(* callback, run to completion, calls that actions make on their own       *)
(* machine included.  config holds the config each instance was built      *)
(* with.                                                                   *)
(***************************************************************************)
EXTENDS Integers, Sequences, FiniteSets, Bags, TLC

VARIABLES mach, log, last, opt, config

vars == <<mach, log, last, opt, config>>

\* ------------------------------------------------------------------ bounds

\* the context field x ranges over 0 .. MaxCtx
MaxCtx == 1

\* a call is left out when it would leave a machine with more than
\* MaxTimers armed setTimeout callbacks (leaked timers add up without limit)
MaxTimers == 2

\* no step is taken that would leave a machine with more than MaxRunning
\* activities whose cleanup was not called (leaked activities add up
\* without limit)
MaxRunning == 4

\* ------------------------------------------------------- values and names

\* the pool of Machine instances: 1 is built from the main config, 2 and 3
\* from the child config, 4 is the instance that withContext, withConfig or
\* withOptions builds from the config of 1
Machines == {1, 2, 3, 4}

NoMachine == 0

\* state.value of a stopped machine (null); an undefined value is modelled
\* by the same constant
Null == "<null>"

\* state.value and state.previousValue of a machine that was never started
NoValue == ""

\* JavaScript truthiness of a state value
Truthy(s) == s # Null /\ s # NoValue

EventTypes == {"START", "PING", "SELF", "BACK", "FINISH", "GLOBAL", "END", "PICK"}

\* ids a child can be registered under: an explicit id and the default
\* id (config.id or a unique one) of each instance
DefaultId(i) ==
  CASE i = 1 -> "machine-1" [] i = 2 -> "machine-2" [] i = 3 -> "machine-3" [] OTHER -> "machine-4"

ExplicitIds == {"a"}

ChildIds == ExplicitIds \cup {DefaultId(i) : i \in Machines}

CtxValues == 0 .. MaxCtx

\* ------------------------------------------------------------- the configs

\* an action of a config: its name, the value it assigns to context.x
\* (-1 when it leaves the context alone) and the method of its own machine
\* it calls: none, "stop" for stop(), an event type for send of that event
A(n) == [n |-> n, set |-> -1, call |-> ""]

ASet(n, v) == [n |-> n, set |-> v, call |-> ""]

ACall(n, call) == [n |-> n, set |-> -1, call |-> call]

\* a transition { target?, actions?, cond?, delay? }; target "" and cond ""
\* stand for an omitted target and an omitted guard
T(target, actions, cond) == [target |-> target, actions |-> actions, cond |-> cond, delay |-> 0]

TAfter(delay, target, actions, cond) == [target |-> target, actions |-> actions, cond |-> cond, delay |-> delay]

NoOn == [e \in EventTypes |-> <<>>]

\* what getStateNode gives for an undeclared state: every field undefined
NoNode ==
  [declared |-> FALSE, entry |-> <<>>, exit |-> <<>>, on |-> NoOn, after |-> <<>>,
   afterMap |-> <<>>,
   every |-> <<>>, everyArray |-> FALSE, activities |-> <<>>, tags |-> {}, final |-> FALSE]

Node(entry, exit, on, after, every, activities, tags, final) ==
  [declared |-> TRUE, entry |-> entry, exit |-> exit, on |-> on, after |-> after,
   afterMap |-> <<>>,
   every |-> every, everyArray |-> FALSE, activities |-> activities, tags |-> tags,
   final |-> final]

MainStates == {"idle", "active", "finished"}

ChildStates == {"run", "end"}

StateNames == MainStates \cup ChildStates

IdleNode ==
  Node(<<A("idle.entry")>>, <<A("idle.exit")>>,
       [e \in EventTypes |->
          CASE e = "START" -> <<T("active", <<A("start.do")>>, "")>>
            [] e = "PING" -> <<T("", <<ASet("ping.do", 1)>>, "")>>
            [] e = "PICK" -> <<T("active", <<A("pick.one")>>, "isOne"),
                               T("finished", <<A("pick.any")>>, "")>>
            [] OTHER -> <<>>],
       <<>>, <<>>, <<>>, {"resting"}, FALSE)

ActiveNode ==
  Node(<<A("active.entry")>>, <<A("active.exit")>>,
       [e \in EventTypes |->
          CASE e = "FINISH" -> <<T("finished", <<A("finish.do")>>, "")>>
            [] e = "SELF" -> <<T("active", <<A("self.do")>>, "")>>
            [] e = "BACK" -> <<T("idle", <<A("back.do")>>, "")>>
            [] e = "PING" -> <<T("", <<ASet("ping.do", 1)>>, "")>>
            [] e = "PICK" -> <<T("idle", <<A("pick.zero")>>, "isZero"),
                               T("finished", <<A("pick.late")>>, "isZero")>>
            [] OTHER -> <<>>],
       <<TAfter(100, "idle", <<A("timeout.do")>>, "")>>,
       <<[interval |-> 50, actions |-> <<A("tick.do")>>, cond |-> ""]>>,
       <<[n |-> "track"]>>, {"busy"}, FALSE)

FinishedNode ==
  Node(<<A("finished.entry")>>, <<A("finished.exit")>>, NoOn, <<>>, <<>>, <<>>, {"over"}, TRUE)

RunNode ==
  Node(<<A("run.entry")>>, <<A("run.exit")>>,
       [e \in EventTypes |-> IF e = "END" THEN <<T("end", <<A("end.do")>>, "")>> ELSE <<>>],
       <<>>, <<>>, <<[n |-> "watch"]>>, {}, FALSE)

EndNode ==
  Node(<<A("end.entry")>>, <<>>, NoOn, <<>>, <<>>, <<>>, {}, TRUE)

\* an after declaration in map form, its keys in the order for..in visits
\* them: { 100: [{ target: "idle", cond: "isOne", actions }], 200: "idle" },
\* and one whose value is a single transition object
AfterMap ==
  <<[key |-> "100", kind |-> "array",
     candidates |-> <<T("idle", <<A("timeout.do")>>, "isOne")>>],
    [key |-> "200", kind |-> "string", candidates |-> <<T("idle", <<>>, "")>>]>>

AfterMapObject ==
  <<[key |-> "100", kind |-> "object",
     candidates |-> <<T("idle", <<A("timeout.do")>>, "")>>]>>

\* an every declaration in array form: an entry without guard whose
\* interval is 0, a guarded entry, an entry without guard
EveryArray ==
  <<[interval |-> 0, actions |-> <<A("tick.zero")>>, cond |-> ""],
    [interval |-> 50, actions |-> <<A("tick.one")>>, cond |-> "isOne"],
    [interval |-> 50, actions |-> <<A("tick.any")>>, cond |-> ""]>>

\* the config of machine i.  opt chooses among the configs: a top-level
\* "on" table or none, a final initial state or not, an entry action of
\* active that calls stop() or send() on its own machine or none
Config(i) ==
  IF i \in {1, 4}
  THEN [initial |-> IF opt.initFinal THEN "finished" ELSE "idle",
        states |-> [s \in StateNames |->
                      CASE s = "idle" -> IdleNode
                        [] s = "active" ->
                             [ActiveNode EXCEPT
                                !.entry = IF opt.entry = "" THEN @
                                          ELSE @ \o <<ACall("active.call", opt.entry)>>,
                                !.every = IF opt.shape = "everyArray" THEN EveryArray
                                          ELSE IF opt.shape = "everyNone"
                                          THEN SubSeq(EveryArray, 1, 2)
                                          ELSE @,
                                !.everyArray = opt.shape \in {"everyArray", "everyNone"},
                                !.after = IF opt.shape = "afterGuard"
                                          THEN <<TAfter(100, "idle", <<A("timeout.do")>>,
                                                        "isOne")>>
                                          ELSE IF opt.shape = "afterSelf"
                                          THEN <<TAfter(100, "active", <<A("timeout.do")>>, "")>>
                                          ELSE IF opt.shape \in {"afterMap", "afterMapObject"}
                                          THEN <<>>
                                          ELSE @,
                                !.afterMap = IF opt.shape = "afterMap" THEN AfterMap
                                             ELSE IF opt.shape = "afterMapObject"
                                             THEN AfterMapObject
                                             ELSE @,
                                !.activities = IF opt.shape = "quiet"
                                               THEN <<[n |-> "quiet"]>> \o @
                                               ELSE @]
                        [] s = "finished" -> FinishedNode
                        [] OTHER -> NoNode],
        hasOn |-> opt.on,
        on |-> [e \in EventTypes |->
                  IF opt.on /\ e = "GLOBAL" THEN <<T("active", <<A("global.do")>>, "")>> ELSE <<>>],
        onStart |-> <<A("onStart")>>,
        onStop |-> <<A("onStop")>>,
        hasContext |-> TRUE,
        context |-> [x |-> 0]]
  ELSE [initial |-> IF opt.childFinal THEN "end" ELSE "run",
        states |-> [s \in StateNames |->
                      CASE s = "run" -> RunNode
                        [] s = "end" -> EndNode
                        [] OTHER -> NoNode],
        hasOn |-> FALSE,
        on |-> NoOn,
        onStart |-> <<A("child.onStart")>>,
        onStop |-> <<A("child.onStop")>>,
        hasContext |-> TRUE,
        context |-> [x |-> 0]]

\* this.config of instance i: the config it was constructed with
Cfg(i) == config[i]

\* the guards registered in options.guards
GuardMap(name, ctx) ==
  CASE name = "isZero" -> ctx.x = 0
    [] name = "isOne" -> ctx.x = 1
    [] OTHER -> FALSE

\* ------------------------------------------------- the fields of a Machine

\* the fields of a freshly constructed Machine
NewMachine(i) ==
  [status |-> "NotStarted",
   value |-> NoValue,
   previousValue |-> NoValue,
   event |-> "",
   done |-> FALSE,
   tags |-> {},
   ctx |-> Cfg(i).context,
   \* config.context of this instance
   config |-> [context |-> Cfg(i).context],
   id |-> DefaultId(i),
   type |-> "machine",
   parent |-> NoMachine,
   children |-> [c \in ChildIds |-> NoMachine],
   \* armed setTimeout callbacks: [id, st (the state entered), tr]
   timers |-> {},
   \* delayedEvents: per state, the timer ids its stored exit closures clear
   delayedEvents |-> [s \in StateNames |-> {}],
   \* activityEvents: per state, the bag of cleanup callbacks
   activityEvents |-> [s \in StateNames |-> EmptyBag],
   \* effects started by an activity whose cleanup has not been called
   running |-> EmptyBag,
   stateListeners |-> {},
   contextListeners |-> {},
   doneListeners |-> {},
   \* whether removeStateListener / removeContextListener hold a live
   \* subscription of the store, and whether an earlier one was overwritten
   subscribed |-> FALSE,
   leaked |-> FALSE]

\* --------------------------------------------------------------- resolvers

\* determineGuardFn(cond, guardMap)(context, event): an omitted guard gives
\* undefined, which transition selection treats as a match
GuardPasses(cond, ctx) == cond = "" \/ GuardMap(cond, ctx)

\* determineTransitionFn(transitions, guardMap)(context, event): the first
\* candidate whose guard passes, as a sequence of length 1, or <<>> when
\* the table entry is undefined or no candidate matches
RECURSIVE FirstMatch(_, _)
FirstMatch(transitions, ctx) ==
  IF transitions = <<>> THEN <<>>
  ELSE IF GuardPasses(Head(transitions).cond, ctx) THEN <<Head(transitions)>>
  ELSE FirstMatch(Tail(transitions), ctx)

\* a resolution that takes the last candidate whose guard passes
RECURSIVE LastMatch(_, _)
LastMatch(transitions, ctx) ==
  IF transitions = <<>> THEN <<>>
  ELSE IF LastMatch(Tail(transitions), ctx) # <<>> THEN LastMatch(Tail(transitions), ctx)
  ELSE IF GuardPasses(Head(transitions).cond, ctx) THEN <<Head(transitions)>>
  ELSE <<>>

determineTransition_LastMatch(w, i, transitions) == LastMatch(transitions, w.mach[i].ctx)

\* determineTransition(transition, event): the guards are evaluated on the
\* context snapshot
determineTransition(w, i, transitions) == FirstMatch(transitions, w.mach[i].ctx)

\* toTransition(transitionConfig, current): the table entry, normalised
toTransition(transitionConfig, current) == transitionConfig

getStateNode(i, state) ==
  IF ~Truthy(state) THEN NoNode
  ELSE IF state \in StateNames THEN Cfg(i).states[state] ELSE NoNode

getNextStateInfo(w, i, transitions) ==
  LET resolvedTransition == determineTransition(w, i, transitions)
      target == IF resolvedTransition # <<>> /\ resolvedTransition[1].target # ""
                THEN resolvedTransition[1].target
                ELSE w.mach[i].value
  IN [transition |-> resolvedTransition, target |-> target]

\* ----------------------------------------------------------------- the log

\* one call made by the operation in progress: the machine, the kind of
\* call, the state whose declaration it comes from, the name called
Entry(i, k, s, a) == [m |-> i, k |-> k, s |-> s, a |-> a]

\* the log kinds that are steps of the interpreter; every other kind is a
\* call of a function given by the user (action, activity, cleanup, listener)
OwnSteps == {"dispatch", "enter", "stopped", "warn"}

\* what a function called now can read: some machine has status Running and
\* value null
RunningWithoutValue(w) ==
  \E j \in Machines : w.mach[j].status = "Running" /\ w.mach[j].value = Null

\* the call is recorded in the world v = w
Logged(w, i, k, s, a) ==
  CHOOSE r \in {[v EXCEPT !.log = Append(@, Entry(i, k, s, a)),
                          !.seen = @ \/ (k \notin OwnSteps /\ RunningWithoutValue(v))]
                 : v \in {w}} : TRUE

\* the elements of a bag, one per copy, in a fixed order
RECURSIVE BagToSeq(_)
BagToSeq(b) ==
  IF BagToSet(b) = {} THEN <<>>
  ELSE LET e == CHOOSE x \in BagToSet(b) : TRUE
       IN <<e>> \o BagToSeq(b (-) SetToBag({e}))

RECURSIVE SetToSeq(_)
SetToSeq(S) ==
  IF S = {} THEN <<>>
  ELSE LET e == CHOOSE x \in S : TRUE
       IN <<e>> \o SetToSeq(S \ {e})

\* -------------------------------------------------- actions and activities

RECURSIVE ExecuteActions(_, _, _, _, _)
RECURSIVE Stop(_, _)
RECURSIVE Send(_, _, _)

\* what the body of a declared action does by itself: it is called, and
\* it assigns the context field when it is declared to
Acted(w, i, kind, s, a) ==
  [Logged(w, i, kind, s, a.n) EXCEPT !.mach[i].ctx.x = IF a.set >= 0 THEN a.set ELSE @]

\* the method of its own machine that the body of a declared action calls
Called(w, i, call) ==
  IF call = "" THEN w
  ELSE IF call = "stop" THEN Stop(w, i)
  ELSE Send(w, i, call)

\* executeActions(actions, event): each declared action, in order; kind
\* and s say which list of the config the actions come from
ExecuteActions(w, i, kind, s, actions) ==
  IF actions = <<>> THEN w
  ELSE ExecuteActions(Called(Acted(w, i, kind, s, Head(actions)), i, Head(actions).call),
                      i, kind, s, Tail(actions))

\* an error is thrown: a throw statement, or a call of a value that is not
\* a function
Throw(w) == [w EXCEPT !.err = TRUE]

\* the activities of the config whose implementation returns nothing
Quiet == {"quiet"}

\* what such an activity gives as its cleanup
Undefined == [n |-> "<undefined>", st |-> "", k |-> 0]

\* addActivityCleanup(state, cleanup): the cleanups of a state are a Set of
\* functions, each its own closure; undefined is in it once at most
addActivityCleanup(w, i, state, cleanup) ==
  IF ~Truthy(state) THEN w
  ELSE [w EXCEPT !.mach[i].activityEvents[state] =
                   IF cleanup = Undefined /\ BagIn(Undefined, @) THEN @
                   ELSE @ (+) SetToBag({cleanup})]

\* executeActivities(event, activities): start each activity and keep its
\* cleanup under the state that is current when it returns
RECURSIVE executeActivities(_, _, _)
executeActivities(w, i, activities) ==
  IF activities = <<>> THEN w
  ELSE LET act == Head(activities)
           w1 == [Logged(w, i, "activity", act.st, act.n) EXCEPT
                    !.mach[i].running = IF act.n \in Quiet THEN @ ELSE @ (+) SetToBag({act})]
           w2 == addActivityCleanup(w1, i, w1.mach[i].value,
                                    IF act.n \in Quiet THEN Undefined ELSE act)
       IN executeActivities(w2, i, Tail(activities))

\* createEveryActivities(every, callbackfn), map form: one activity per
\* key; each is unshifted onto the activities, so the last key comes first
RECURSIVE createEveryActivities(_, _, _)
createEveryActivities(every, st, k) ==
  IF k > Len(every) THEN <<>>
  ELSE createEveryActivities(every, st, k + 1) \o <<[n |-> "every", st |-> st, k |-> k]>>

\* what the find callback of createEveryActivities returns for entry t of
\* an array: cond ?? t.interval, taken for its truthiness; the guard of an
\* entry without cond resolves to undefined
EveryQualifies(t, ctx) ==
  IF t.cond = "" THEN t.interval # 0 ELSE GuardMap(t.cond, ctx)

\* an array form that arms the last entry that the find callback accepts
pickedEvery_Last(w, i, every, st) ==
  LET qualifying == {k \in 1 .. Len(every) : EveryQualifies(every[k], w.mach[i].ctx)}
  IN IF qualifying = {} THEN <<>>
     ELSE <<[n |-> "every", st |-> st,
             k |-> CHOOSE k \in qualifying : \A m \in qualifying : k >= m]>>

\* createEveryActivities(every, callbackfn), array form: one activity, for
\* the first entry that the find callback accepts, or none
pickedEvery(w, i, every, st) ==
  LET qualifying == {k \in 1 .. Len(every) : EveryQualifies(every[k], w.mach[i].ctx)}
  IN IF qualifying = {} THEN <<>>
     ELSE <<[n |-> "every", st |-> st,
             k |-> CHOOSE k \in qualifying : \A m \in qualifying : k <= m]>>

\* the cleanups of one state's set are called, each ends its effect
RECURSIVE CallCleanups(_, _, _)
CallCleanups(w, i, cleanups) ==
  IF cleanups = <<>> THEN w
  ELSE IF Head(cleanups) = Undefined THEN Throw(w)
  ELSE LET c == Head(cleanups)
           w1 == [Logged(w, i, "cleanup", c.st, c.n) EXCEPT
                    !.mach[i].running = @ (-) SetToBag({c})]
       IN CallCleanups(w1, i, Tail(cleanups))

\* the cleanups kept under state s in the order forEach calls them, the
\* order in which they were added: a set that holds undefined was filled by
\* one executeActivities, in the order of the activities of the state
CleanupsOf(w, i, s) ==
  IF ~BagIn(Undefined, w.mach[i].activityEvents[s]) THEN BagToSeq(w.mach[i].activityEvents[s])
  ELSE LET started == createEveryActivities(getStateNode(i, s).every, s, 1)
                      \o [k \in 1 .. Len(getStateNode(i, s).activities) |->
                            [n |-> getStateNode(i, s).activities[k].n, st |-> s, k |-> 0]]
           first == CHOOSE k \in 1 .. Len(started) : /\ started[k].n \in Quiet
                                                     /\ \A m \in 1 .. k - 1 :
                                                          started[m].n \notin Quiet
       IN SelectSeq(SubSeq(started, 1, first - 1),
                    LAMBDA c : BagIn(c, w.mach[i].activityEvents[s]))
          \o <<Undefined>>

RECURSIVE StopActivitiesOf(_, _, _)
StopActivitiesOf(w, i, states) ==
  IF states = <<>> THEN w
  ELSE LET s == Head(states)
           w1 == CallCleanups(w, i, CleanupsOf(w, i, s))
           w2 == [w1 EXCEPT !.mach[i].activityEvents[s] = EmptyBag]
       IN IF w1.err THEN w1 ELSE StopActivitiesOf(w2, i, Tail(states))

\* stopActivities(state?): one state's cleanups, or every state's when the
\* argument is falsy
stopActivities(w, i, state) ==
  IF Truthy(state) THEN StopActivitiesOf(w, i, <<state>>)
  ELSE StopActivitiesOf(w, i, SetToSeq({s \in StateNames : w.mach[i].activityEvents[s] # EmptyBag}))

\* ------------------------------------------------------------------ timers

UsedTimerIds(m) == {t.id : t \in m.timers} \cup UNION {m.delayedEvents[s] : s \in StateNames}

FreshTimerId(m) == CHOOSE n \in 1 .. (Cardinality(UsedTimerIds(m)) + 1) : n \notin UsedTimerIds(m)

\* the k-th timer id that is not in use
NthFreshTimerId(m, k) ==
  LET free == (1 .. (Cardinality(UsedTimerIds(m)) + k)) \ UsedTimerIds(m)
  IN CHOOSE n \in free : Cardinality({f \in free : f < n}) = k - 1

\* the duration a key of an after map resolves to
DelayOf(key) == IF key = "100" THEN 100 ELSE IF key = "200" THEN 200 ELSE 0

\* the transition that getDelayedEventActions hands to
\* getActionFromDelayedTransition for one key of an after map: the picked
\* candidate as it is for an array, {} when none is picked, and for a
\* string or a single transition the transition with the key as its delay
resolvedTransition(w, i, e) ==
  IF e.kind = "array"
  THEN IF determineTransition(w, i, e.candidates) # <<>>
       THEN determineTransition(w, i, e.candidates)
       ELSE <<T("", <<>>, "")>>
  ELSE <<[e.candidates[1] EXCEPT !.delay = DelayOf(e.key)]>>

\* the { entry, exit } pairs of the keys k .. of an after map, from the
\* n-th unused timer id on
RECURSIVE afterMapActions(_, _, _, _, _)
afterMapActions(w, i, state, k, n) ==
  LET afterMap == getStateNode(i, state).afterMap
  IN IF k > Len(afterMap) THEN <<>>
     ELSE IF resolvedTransition(w, i, afterMap[k]) = <<>>
     THEN afterMapActions(w, i, state, k + 1, n)
     ELSE <<[id |-> NthFreshTimerId(w.mach[i], n), st |-> state,
             tr |-> resolvedTransition(w, i, afterMap[k])[1]]>>
          \o afterMapActions(w, i, state, k + 1, n + 1)

\* the state node declares after
HasAfter(stateNode) == stateNode.after # <<>> \/ stateNode.afterMap # <<>>

\* getDelayedEventActions(state): in array form the first candidate whose
\* guard passes now gives one { entry, exit } pair, and no candidate no
\* pair; in map form every key gives a pair
getDelayedEventActions(w, i, state) ==
  LET stateNode == getStateNode(i, state)
      transition == determineTransition(w, i, stateNode.after)
  IN IF stateNode.afterMap # <<>> THEN afterMapActions(w, i, state, 1, 1)
     ELSE IF stateNode.after = <<>> \/ transition = <<>> THEN <<>>
     ELSE <<[id |-> FreshTimerId(w.mach[i]), st |-> state, tr |-> transition[1]]>>

\* the exit closures of getActionFromDelayedTransition: clearTimeout(id)
ClearTimeouts(w, i, ids) ==
  [w EXCEPT !.mach[i].timers = {t \in @ : t.id \notin ids}]

\* the entry closures of getActionFromDelayedTransition: setTimeout
SetTimeouts(w, i, pairs) ==
  [w EXCEPT !.mach[i].timers = @ \cup {pairs[k] : k \in 1 .. Len(pairs)}]

\* stopDelayedEvents()
stopDelayedEvents(w, i) ==
  [ClearTimeouts(w, i, UNION {w.mach[i].delayedEvents[s] : s \in StateNames}) EXCEPT
     !.mach[i].delayedEvents = [s \in StateNames |-> {}]]

\* ------------------------------------------------------- state and context

\* a setState that leaves the tags as they are when the target is null
setState_KeepsTags(w, i, target) ==
  [w EXCEPT !.mach[i].previousValue = w.mach[i].value,
            !.mach[i].value = target,
            !.mach[i].tags = IF target = Null THEN @ ELSE getStateNode(i, target).tags]

\* setState(target)
setState(w, i, target) ==
  [w EXCEPT !.mach[i].previousValue = w.mach[i].value,
            !.mach[i].value = target,
            !.mach[i].tags = IF target = Null THEN {} ELSE getStateNode(i, target).tags]

\* setContext(context): every key of the partial context is assigned
setContext(w, i, context) == [w EXCEPT !.mach[i].ctx.x = context.x]

\* setEvent(event)
setEvent(w, i, eventType) == [w EXCEPT !.mach[i].event = eventType]

\* --------------------------------------------------------- stop and children

\* removeChild(id)
removeChild(w, p, id) == [w EXCEPT !.mach[p].children[id] = NoMachine]

\* the done listeners, each called once: a listener added by spawn removes
\* the actor, under the id it has now, from the spawning parent's registry
RECURSIVE CallDoneListeners(_, _, _)
CallDoneListeners(w, i, listeners) ==
  IF listeners = <<>> THEN w
  ELSE LET l == Head(listeners)
           w1 == Logged(w, i, "done", w.mach[i].value, l.n)
       IN CallDoneListeners(IF l.p # NoMachine THEN removeChild(w1, l.p, w1.mach[i].id) ELSE w1,
                            i, Tail(listeners))

stopStateListeners(w, i) ==
  [w EXCEPT !.mach[i].subscribed = FALSE, !.mach[i].stateListeners = {}]

stopContextListeners(w, i) ==
  [w EXCEPT !.mach[i].contextListeners = {}]

RECURSIVE StopEach(_, _)
StopEach(w, machines) ==
  IF machines = <<>> THEN w
  ELSE StopEach(Stop(w, Head(machines)), Tail(machines))

\* stopChildren(): every registered child is stopped, the registry cleared
stopChildren(w, i) ==
  LET registered == {w.mach[i].children[c] : c \in ChildIds} \ {NoMachine}
  IN [StopEach(w, SetToSeq(registered)) EXCEPT
        !.mach[i].children = [c \in ChildIds |-> NoMachine]]

\* the steps of stop() between the reset of state and context and the
\* onStop actions: listeners, children, activities and timers are stopped,
\* the status becomes Stopped
Halted(w, i) ==
  CHOOSE r \in {IF v.err THEN v
                ELSE Logged([stopDelayedEvents(v, i) EXCEPT !.mach[i].status = "Stopped"],
                            i, "stopped", "", "")
                : v \in {stopActivities(
                           stopChildren(
                             stopContextListeners(stopStateListeners(w, i), i), i),
                           i, Null)}} : TRUE

\* this.executeActions(this.config.onStop, ...), the last statement of
\* stop(), not reached when a statement before it has thrown
runOnStop(w, i) ==
  CHOOSE r \in {IF v.err THEN v ELSE ExecuteActions(v, i, "onStop", "", Cfg(i).onStop)
                : v \in {w}} : TRUE

\* the first steps of stop(): the state is cleared, the event is set, the
\* context is set back to config.context
Reset(w, i) ==
  LET w1 == setEvent(setState(w, i, Null), i, "machine.stop")
  IN IF Cfg(i).hasContext THEN setContext(w1, i, w.mach[i].config.context) ELSE w1

\* stop() without the early return of a machine that is already stopped
Stop_Unguarded(w, i) ==
  ExecuteActions(Halted(Reset(w, i), i), i, "onStop", "", Cfg(i).onStop)

\* stop()
Stop(w, i) ==
  IF w.mach[i].status = "Stopped" THEN w
  ELSE runOnStop(Halted(Reset(w, i), i), i)

\* ------------------------------------------------------ the effect sequence

\* performExitEffects(current, event): the exit actions declared on the
\* node named by the argument, then the stored after-exit closures and the
\* activities of the state that is current
performExitEffects(w, i, current) ==
  LET currentState == w.mach[i].value
      stateNode == getStateNode(i, current)
      afterExitActions == IF Truthy(currentState) /\ currentState \in StateNames
                          THEN w.mach[i].delayedEvents[currentState] ELSE {}
  IN stopActivities(ClearTimeouts(ExecuteActions(w, i, "exit", current, stateNode.exit),
                                  i, afterExitActions),
                    i, currentState)

\* a final entry that stops the machine before it calls the done listeners
enterFinal_StopFirst(w, i) ==
  CallDoneListeners(Stop([w EXCEPT !.mach[i].done = TRUE], i), i,
                    SetToSeq(w.mach[i].doneListeners))

\* the end of performEntryEffects for a final state: done is set, the done
\* listeners are called, the machine is stopped
enterFinal(w, i) ==
  Stop(CallDoneListeners([w EXCEPT !.mach[i].done = TRUE], i,
                         SetToSeq(w.mach[i].doneListeners)), i)

\* if (stateNode?.type === "final") { ... }, the last step of
\* performEntryEffects
enterIfFinal(w, i, final) == IF final THEN enterFinal(w, i) ELSE w

\* the activities of performEntryEffects: those that createEveryActivities
\* makes, resolved against the context left by the entry actions, then the
\* declared ones
entryActivities(w, i, next) ==
  LET stateNode == getStateNode(i, next)
  IN (IF stateNode.everyArray
      THEN pickedEvery(w, i, stateNode.every, next)
      ELSE createEveryActivities(stateNode.every, next, 1))
     \o [k \in 1 .. Len(stateNode.activities) |->
           [n |-> stateNode.activities[k].n, st |-> next, k |-> 0]]

\* const activities = toArray(stateNode?.activities); createEveryActivities
\* (stateNode?.every, ...); this.executeActivities(event, activities)
executeEntryActivities(w, i, next) ==
  CHOOSE r \in {executeActivities(v, i, entryActivities(v, i, next)) : v \in {w}} : TRUE

\* performEntryEffects(next, event)
performEntryEffects(w, i, next) ==
  LET stateNode == getStateNode(i, next)
      afterActions == getDelayedEventActions(w, i, next)
      w1 == IF HasAfter(stateNode) /\ afterActions # <<>>
            THEN [w EXCEPT !.mach[i].delayedEvents[next] =
                             {afterActions[k].id : k \in 1 .. Len(afterActions)}]
            ELSE w
  IN enterIfFinal(
       executeEntryActivities(
         SetTimeouts(
           ExecuteActions(Logged(w1, i, "enter", next, ""), i, "entry", next,
                          stateNode.entry),
           i, IF HasAfter(stateNode) THEN afterActions ELSE <<>>),
         i, next),
       i, stateNode.final)

\* performTransitionEffects(transition, event)
performTransitionEffects(w, i, transition) ==
  LET t == determineTransition(w, i, transition)
  IN IF t = <<>> THEN w ELSE ExecuteActions(w, i, "transition", "", t[1].actions)

\* if (ok) { this.performEntryEffects(next.target, event) }, the last step
\* of performStateChangeEffects
enterIfOk(w, i, target, ok) == IF ok THEN performEntryEffects(w, i, target) ELSE w

\* a performStateChangeEffects that takes every transition with a target
\* for a change of state, a target that is the current state included
performStateChangeEffects_AlwaysChanges(w, i, current, next, eventType) ==
  LET w0 == Logged(setEvent(w, i, eventType), i, "dispatch", w.mach[i].value, eventType)
      target == IF next.target # Null THEN next.target ELSE w0.mach[i].value
      ok == Truthy(target)
  IN enterIfOk(
       setState(
         performTransitionEffects(
           IF ok THEN performExitEffects(w0, i, current) ELSE w0,
           i, next.transition),
         i, target),
       i, target, ok)

\* the statements of performStateChangeEffects after the exit effects, not
\* reached when the exit effects have thrown
changeState(w, i, transition, target, ok) ==
  CHOOSE r \in {IF v.err THEN v
                ELSE enterIfOk(setState(performTransitionEffects(v, i, transition), i, target),
                               i, target, ok)
                : v \in {w}} : TRUE

\* performStateChangeEffects(current, next, event)
performStateChangeEffects(w, i, current, next, eventType) ==
  LET w0 == Logged(setEvent(w, i, eventType), i, "dispatch", w.mach[i].value, eventType)
      target == IF next.target # Null THEN next.target ELSE w0.mach[i].value
      ok == Truthy(target) /\ target # w0.mach[i].value
  IN changeState(IF ok THEN performExitEffects(w0, i, current) ELSE w0,
                 i, next.transition, target, ok)

\* ------------------------------------------------------- the public methods

\* the argument of start(): none, or an override { context, value }; a
\* bare override value stands for { context: config.context, value }
NoInit == [given |-> FALSE, value |-> "", context |-> [x |-> 0]]

Override(value, context) == [given |-> TRUE, value |-> value, context |-> context]

\* the subscriptions start() attaches to the state and the context: a
\* subscription still attached from an earlier start is never removed
Subscribed(m) == [m EXCEPT !.leaked = @ \/ m.subscribed, !.subscribed = TRUE]

\* the statements of start() after performStateChangeEffects, not reached
\* when it has thrown: the two subscriptions, then the onStart actions
runOnStart(w, i) ==
  CHOOSE r \in {IF v.err THEN v
                ELSE ExecuteActions([v EXCEPT !.mach[i] = Subscribed(@)],
                                    i, "onStart", "", Cfg(i).onStart)
                : v \in {w}} : TRUE

\* start(init?)
Start(w, i, init) ==
  IF w.mach[i].status = "Running" THEN w
  ELSE LET w1 == [w EXCEPT !.mach[i].status = "Running"]
           w2 == IF init.given
                 THEN setContext(setState(w1, i, init.value), i, init.context)
                 ELSE w1
           transition == <<T(IF init.given THEN "" ELSE Cfg(i).initial, <<>>, "")>>
           info == getNextStateInfo(w2, i, transition)
           target == IF Truthy(info.target) THEN info.target
                     ELSE IF transition[1].target # "" THEN transition[1].target ELSE Null
       IN runOnStart(performStateChangeEffects(w2, i, target, [info EXCEPT !.target = target],
                                               "machine.init"),
                     i)

\* transition(state, evt), called by send with state.value
Transition(w, i, state, eventType) ==
  LET stateNode == getStateNode(i, state)
  IN IF ~stateNode.declared /\ ~Cfg(i).hasOn
     THEN Logged(w, i, "warn", "", "")
     ELSE LET transitionConfig == IF Cfg(i).on[eventType] # <<>>
                                  THEN Cfg(i).on[eventType]
                                  ELSE stateNode.on[eventType]
              transition == toTransition(transitionConfig, w.mach[i].value)
          IN IF transition = <<>> THEN w
             ELSE LET info == getNextStateInfo(w, i, transition)
                  IN performStateChangeEffects(w, i, info.target, info, eventType)

\* send(evt)
Send(w, i, eventType) == Transition(w, i, w.mach[i].value, eventType)

\* a timer callback that hands the target of the delayed transition, not
\* the current state, to performStateChangeEffects
TimerCallback_TargetAsCurrent(w, i, t) ==
  LET w1 == [w EXCEPT !.mach[i].timers = @ \ {t}]
      next == getNextStateInfo(w1, i, <<t.tr>>)
  IN performStateChangeEffects(w1, i, next.target, next, "machine.after")

\* a timer callback that runs the transition picked at entry without
\* resolving it again
TimerCallback_GuardAtEntry(w, i, t) ==
  LET w1 == [w EXCEPT !.mach[i].timers = @ \ {t}]
  IN performStateChangeEffects(w1, i, w1.mach[i].value,
                               [transition |-> <<t.tr>>, target |-> t.tr.target],
                               "machine.after")

\* the callback of an armed setTimeout (getActionFromDelayedTransition)
TimerCallback(w, i, t) ==
  LET w1 == [w EXCEPT !.mach[i].timers = @ \ {t}]
      current == w1.mach[i].value
      next == getNextStateInfo(w1, i, <<t.tr>>)
  IN performStateChangeEffects(w1, i, current, next, "machine.after")

\* the callback of a running setInterval (createEveryActivities)
IntervalCallback(w, i, c) ==
  ExecuteActions(w, i, "every", c.st, getStateNode(i, c.st).every[c.k].actions)

\* setParent(parent)
setParent(w, j, p) == [w EXCEPT !.mach[j].parent = p]

\* the machines reachable from machine j through child registries
RECURSIVE Registered(_, _, _)
Registered(w, S, n) ==
  IF n = 0 THEN S
  ELSE Registered(w, S \cup ({w.mach[k].children[c] : k \in S, c \in ChildIds} \ {NoMachine}), n - 1)

\* spawn(src, id?) with an already built instance j as src
\* (the done listeners that repeated spawns of j by p add all remove
\* actor.id from p's registry; they are kept as one)
Spawn(w, p, j, id) ==
  LET w1 == setParent([w EXCEPT !.mach[j].id = IF id # "" THEN id ELSE @,
                                !.mach[j].type = "actor"], j, p)
      w2 == [w1 EXCEPT !.mach[p].children[w1.mach[j].id] = j]
      w3 == [w2 EXCEPT !.mach[j].doneListeners = @ \cup {[n |-> "removeChild", p |-> p]}]
  IN Start(w3, j, NoInit)

\* a sendChild that records the event on the sender before it looks the
\* child up
sendChild_RecordsFirst(w, p, eventType, id) ==
  LET w1 == setEvent(w, p, eventType)
      child == w1.mach[p].children[id]
  IN IF child = NoMachine THEN Throw(w1) ELSE Send(w1, child, eventType)

\* sendChild(evt, to)
sendChild(w, p, eventType, id) ==
  LET child == w.mach[p].children[id]
  IN IF child = NoMachine THEN Throw(w) ELSE Send(w, child, eventType)

\* stopChild(id)
stopChild(w, p, id) ==
  IF w.mach[p].children[id] = NoMachine THEN Throw(w)
  ELSE [Stop(w, w.mach[p].children[id]) EXCEPT !.mach[p].children[id] = NoMachine]

\* sendParent(evt)
sendParent(w, i, eventType) ==
  IF w.mach[i].parent = NoMachine THEN Throw(w)
  ELSE Send(w, w.mach[i].parent, eventType)

\* a subscribe that calls the listener whatever the status is
Subscribe_AlwaysCalls(w, i, l) ==
  Logged([w EXCEPT !.mach[i].stateListeners = @ \cup {l}], i, "listener", w.mach[i].value, l)

\* subscribe(listener) and onTransition(listener)
Subscribe(w, i, l) ==
  LET w1 == [w EXCEPT !.mach[i].stateListeners = @ \cup {l}]
  IN IF w.mach[i].status = "Running" THEN Logged(w1, i, "listener", w.mach[i].value, l) ELSE w1

\* the function subscribe returns
Unsubscribe(w, i, l) == [w EXCEPT !.mach[i].stateListeners = @ \ {l}]

\* onChange(listener)
OnChange(w, i, l) == [w EXCEPT !.mach[i].contextListeners = @ \cup {l}]

\* onDone(listener)
OnDone(w, i, l) ==
  [w EXCEPT !.mach[i].doneListeners = @ \cup {[n |-> l, p |-> NoMachine]}]

\* new Machine(config, options) with the given config.context, as instance j
Construct(w, j, context) ==
  [w EXCEPT !.mach[j] = [NewMachine(j) EXCEPT !.ctx = context, !.config.context = context]]

\* a withContext that also writes the new fields into the context of the
\* machine it is called on
withContext_WritesSource(w, i, j, context) ==
  Construct(setContext(w, i, context), j, context)

\* withContext(context), building instance j: every field of config.context
\* is given by the argument or taken from config.context
withContext(w, i, j, context) ==
  LET newContext == [k \in DOMAIN w.mach[i].config.context |->
                       IF k \in DOMAIN context THEN context[k] ELSE w.mach[i].config.context[k]]
  IN Construct(w, j, newContext)

\* withConfig(config), building instance j; the partial config gives a
\* context or does not
withConfig(w, i, j, partial) ==
  Construct(w, j, IF partial.hasContext THEN partial.context ELSE w.mach[i].config.context)

\* withOptions(options), building instance j from this.config
withOptions(w, i, j) == Construct(w, j, w.mach[i].config.context)

\* ------------------------------------------------------------ specification

\* an exit closure whose timer has fired or was cleared clears nothing any
\* more: delayedEvents keeps the ids of the armed timers only
Settle(m) ==
  [i \in Machines |->
     [m[i] EXCEPT !.delayedEvents =
        [s \in StateNames |-> {n \in m[i].delayedEvents[s] : n \in {t.id : t \in m[i].timers}}]]]

World == [mach |-> mach, log |-> <<>>, err |-> FALSE, seen |-> FALSE]

\* the call a step makes: the method, the machine it is called on, its
\* argument (an override value, a child id, the state of a timer) and the
\* instance passed to spawn
Call(op, i, arg, j) ==
  [op |-> op, m |-> i, arg |-> arg, j |-> j, err |-> FALSE, seen |-> FALSE]

Step(call, w) ==
  \E v \in {w} :
    /\ \A i \in Machines : Cardinality(v.mach[i].timers) <= MaxTimers
    /\ \A i \in Machines : BagCardinality(v.mach[i].running) <= MaxRunning
    /\ mach' = Settle(v.mach)
    /\ log' = v.log
    /\ last' = [call EXCEPT !.err = v.err, !.seen = v.seen]
    /\ UNCHANGED <<opt, config>>

\* what the last entry action of active calls on its own machine
EntryCalls == {"", "stop", "BACK", "FINISH"}

\* the forms in which the config of machine 1 declares the state active:
\* "" is the form given by ActiveNode
Shapes ==
  {"", "everyArray", "everyNone", "afterGuard", "afterSelf", "quiet", "afterMap",
   "afterMapObject"}

Options ==
  [on : BOOLEAN, initFinal : BOOLEAN, childFinal : BOOLEAN, entry : EntryCalls, shape : Shapes]

Init ==
  /\ opt \in Options
  /\ config = [i \in Machines |-> Config(i)]
  /\ mach = [i \in Machines |-> NewMachine(i)]
  /\ log = <<>>
  /\ last = Call("new", NoMachine, "", NoMachine)

\* the overrides start() is called with on machine i
Overrides(i) ==
  IF i = 1
  THEN {Override(v, c) : v \in {"active", "finished"}, c \in [x : CtxValues]}
  ELSE {}

DoStart(i) ==
  \E init \in {NoInit} \cup Overrides(i) :
    Step(Call("start", i, init.value, NoMachine), Start(World, i, init))

DoStop(i) == Step(Call("stop", i, "", NoMachine), Stop(World, i))

DoSend(i, events) ==
  \E ev \in events : Step(Call("send", i, "", NoMachine), Send(World, i, ev))

DoTimer(i) ==
  \E t \in mach[i].timers :
    Step(Call("timer", i, t.st, NoMachine), TimerCallback(World, i, t))

DoInterval(i) ==
  \E c \in {r \in BagToSet(mach[i].running) : r.n = "every"} :
    Step(Call("interval", i, c.st, NoMachine), IntervalCallback(World, i, c))

DoSetContext(i) ==
  \E v \in CtxValues :
    Step(Call("setContext", i, "", NoMachine), setContext(World, i, [x |-> v]))

\* spawn is not called with an instance that has p among its descendants
DoSpawn(p, j, ids) ==
  \E id \in ids :
    /\ p \notin Registered(World, {j}, Cardinality(Machines))
    /\ Step(Call("spawn", p, id, j), Spawn(World, p, j, id))

DoSendChild(p, events) ==
  \E ev \in events, id \in ChildIds :
    Step(Call("sendChild", p, id, NoMachine), sendChild(World, p, ev, id))

DoStopChild(p) ==
  \E id \in ChildIds : Step(Call("stopChild", p, id, NoMachine), stopChild(World, p, id))

DoSendParent(i, events) ==
  \E ev \in events : Step(Call("sendParent", i, "", NoMachine), sendParent(World, i, ev))

DoSubscribe(i) == Step(Call("subscribe", i, "L", NoMachine), Subscribe(World, i, "L"))

DoUnsubscribe(i) == Step(Call("unsubscribe", i, "L", NoMachine), Unsubscribe(World, i, "L"))

DoOnChange(i) == Step(Call("onChange", i, "L", NoMachine), OnChange(World, i, "L"))

DoOnDone(i) ==
  \E l \in {"D1", "D2"} : Step(Call("onDone", i, l, NoMachine), OnDone(World, i, l))

\* the instance that is replaced by a newly built one is no longer observed:
\* it is one that is not running and holds no timer and no activity
Inert(j) ==
  /\ mach[j].status # "Running"
  /\ mach[j].timers = {}
  /\ mach[j].running = EmptyBag

DoWithContext(i, j) ==
  \E c \in [x : CtxValues] :
    /\ Inert(j)
    /\ Step(Call("withContext", i, "", j), withContext(World, i, j, c))

DoWithConfig(i, j) ==
  \E partial \in [hasContext : BOOLEAN, context : [x : CtxValues]] :
    /\ Inert(j)
    /\ Step(Call("withConfig", i, "", j), withConfig(World, i, j, partial))

DoWithOptions(i, j) ==
  /\ Inert(j)
  /\ Step(Call("withOptions", i, "", j), withOptions(World, i, j))

\* one machine, built from the main config, driven through its own methods
\* and its timers
Next ==
  \/ DoStart(1)
  \/ DoStop(1)
  \/ DoSend(1, EventTypes)
  \/ DoTimer(1)
  \/ DoInterval(1)
  \/ DoSetContext(1)
  \/ DoSubscribe(1)
  \/ DoUnsubscribe(1)
  \/ DoOnChange(1)

\* the main config, with and without a top-level on table and a final initial
\* state
InitMain == Init /\ opt.childFinal = FALSE /\ opt.entry = "" /\ opt.shape = ""

Spec == InitMain /\ [][Next]_vars

\* one machine and its done listeners
NextDone ==
  \/ DoStart(1)
  \/ DoStop(1)
  \/ DoSend(1, EventTypes)
  \/ DoTimer(1)
  \/ DoOnDone(1)

SpecDone == InitMain /\ [][NextDone]_vars

\* a parent and its actors: machine 1 spawns machine 2, under its default
\* id or under "a", and machine 2 spawns machine 3
NextActors ==
  \/ Step(Call("start", 1, "", NoMachine), Start(World, 1, NoInit))
  \/ \E i \in {1, 2} : DoStop(i)
  \/ DoSend(1, {"START"})
  \/ DoSend(2, {"END"})
  \/ DoSpawn(1, 2, {"", "a"})
  \/ DoSpawn(2, 3, {""})
  \/ \E p \in {1, 2} : DoSendChild(p, {"END"})
  \/ \E p \in {1, 2} : DoStopChild(p)
  \/ \E i \in {1, 2} : DoSendParent(i, {"START"})

\* the actor config, with and without a final initial state
InitActors ==
  Init /\ opt.on = FALSE /\ opt.initFinal = FALSE /\ opt.entry = "" /\ opt.shape = ""

SpecActors == InitActors /\ [][NextActors]_vars

\* a machine and the instance derived from it, each driven on its own
NextDerive ==
  \/ \E i \in {1, 4} : Step(Call("start", i, "", NoMachine), Start(World, i, NoInit))
  \/ \E i \in {1, 4} : DoStop(i)
  \/ \E i \in {1, 4} : DoSend(i, {"START", "PING", "BACK"})
  \/ \E i \in {1, 4} : DoSetContext(i)
  \/ \E i \in {1, 4} : DoTimer(i)
  \/ DoWithContext(1, 4)
  \/ DoWithConfig(1, 4)
  \/ DoWithOptions(1, 4)

\* the main config without a top-level on table
InitDerive ==
  /\ Init
  /\ opt.on = FALSE /\ opt.initFinal = FALSE /\ opt.childFinal = FALSE
  /\ opt.entry = "" /\ opt.shape = ""

SpecDerive == InitDerive /\ [][NextDerive]_vars

\* the scenario idle --START--> active --(after d)--> idle: the machine is
\* started, and restarted, and sent START while it is idle; once it is in
\* active no event is sent and it is not stopped: only its timers run, its
\* context is written and listeners are added
NextTimeout ==
  \/ Step(Call("start", 1, "", NoMachine), Start(World, 1, NoInit))
  \/ mach[1].value # "active" /\ DoStop(1)
  \/ mach[1].status = "Running" /\ mach[1].value = "idle" /\ DoSend(1, {"START"})
  \/ DoTimer(1)
  \/ DoInterval(1)
  \/ DoSetContext(1)
  \/ DoSubscribe(1)
  \/ DoOnChange(1)

\* a timer that is armed fires: the host runs its callback after the delay
SpecTimeout == InitDerive /\ [][NextTimeout]_vars /\ WF_vars(DoTimer(1))

\* a machine whose entry action of active calls stop() or send() on the
\* machine itself
NextReentrant ==
  \/ Step(Call("start", 1, "", NoMachine), Start(World, 1, NoInit))
  \/ DoStop(1)
  \/ DoSend(1, {"START", "BACK", "SELF", "PING", "FINISH"})
  \/ DoTimer(1)
  \/ DoInterval(1)
  \/ DoSetContext(1)

InitReentrant ==
  /\ Init
  /\ opt.on = FALSE /\ opt.initFinal = FALSE /\ opt.childFinal = FALSE
  /\ opt.entry # "" /\ opt.shape = ""

SpecReentrant == InitReentrant /\ [][NextReentrant]_vars

\* a machine whose state active declares every in array form, or in map
\* form
NextEvery ==
  \/ Step(Call("start", 1, "", NoMachine), Start(World, 1, NoInit))
  \/ DoStop(1)
  \/ DoSend(1, {"START", "BACK", "SELF", "PING", "FINISH"})
  \/ DoTimer(1)
  \/ DoInterval(1)
  \/ DoSetContext(1)

InitEvery ==
  /\ Init
  /\ opt.on = FALSE /\ opt.initFinal = FALSE /\ opt.childFinal = FALSE
  /\ opt.entry = "" /\ opt.shape \in {"", "everyArray", "everyNone"}

SpecEvery == InitEvery /\ [][NextEvery]_vars

\* a machine whose state active declares a delayed transition that is
\* guarded, or whose target is active itself, or the one of ActiveNode
NextAfter ==
  \/ Step(Call("start", 1, "", NoMachine), Start(World, 1, NoInit))
  \/ DoStop(1)
  \/ DoSend(1, {"START", "BACK", "SELF", "PING", "FINISH"})
  \/ DoTimer(1)
  \/ DoInterval(1)
  \/ DoSetContext(1)

InitAfter ==
  /\ Init
  /\ opt.on = FALSE /\ opt.initFinal = FALSE /\ opt.childFinal = FALSE
  /\ opt.entry = "" /\ opt.shape \in {"", "afterGuard", "afterSelf"}

SpecAfter == InitAfter /\ [][NextAfter]_vars

\* a machine whose state active declares after in map form
InitAfterMap ==
  /\ Init
  /\ opt.on = FALSE /\ opt.initFinal = FALSE /\ opt.childFinal = FALSE
  /\ opt.entry = "" /\ opt.shape \in {"afterMap", "afterMapObject"}

SpecAfterMap == InitAfterMap /\ [][NextAfter]_vars

\* the listeners given to subscribe, onTransition and onChange
Listeners == {"L", "M"}

DoSubscribeOf(i, l) == Step(Call("subscribe", i, l, NoMachine), Subscribe(World, i, l))

DoOnTransition(i, l) == Step(Call("onTransition", i, l, NoMachine), Subscribe(World, i, l))

DoUnsubscribeOf(i, l) == Step(Call("unsubscribe", i, l, NoMachine), Unsubscribe(World, i, l))

DoOnChangeOf(i, l) == Step(Call("onChange", i, l, NoMachine), OnChange(World, i, l))

\* a machine and two listeners
NextListen ==
  \/ Step(Call("start", 1, "", NoMachine), Start(World, 1, NoInit))
  \/ DoStop(1)
  \/ DoSend(1, {"START", "BACK", "FINISH"})
  \/ \E l \in Listeners : DoSubscribeOf(1, l)
  \/ \E l \in Listeners : DoOnTransition(1, l)
  \/ \E l \in Listeners : DoUnsubscribeOf(1, l)
  \/ \E l \in Listeners : DoOnChangeOf(1, l)
  \/ DoOnDone(1)

SpecListen == InitDerive /\ [][NextListen]_vars

\* a machine whose state active starts an activity that returns nothing
\* before the activity track
NextQuiet ==
  \/ Step(Call("start", 1, "", NoMachine), Start(World, 1, NoInit))
  \/ DoStop(1)
  \/ DoSend(1, {"START", "BACK", "SELF", "PING", "FINISH"})
  \/ DoTimer(1)
  \/ DoInterval(1)
  \/ DoSetContext(1)

InitQuiet ==
  /\ Init
  /\ opt.on = FALSE /\ opt.initFinal = FALSE /\ opt.childFinal = FALSE
  /\ opt.entry = "" /\ opt.shape = "quiet"

SpecQuiet == InitQuiet /\ [][NextQuiet]_vars

\* one actor, machine 3, that machines 1 and 2 both spawn
DoSetParent(j, parents) ==
  \E p \in parents : Step(Call("setParent", j, "", p), setParent(World, j, p))

NextAdopt ==
  \/ DoSpawn(1, 3, {"", "a"})
  \/ DoSpawn(2, 3, {""})
  \/ \E p \in {1, 2} : DoStopChild(p)
  \/ \E i \in {1, 2, 3} : DoStop(i)
  \/ DoSend(3, {"END"})
  \/ DoSetParent(3, {1, 2})

SpecAdopt == InitDerive /\ [][NextAdopt]_vars

\* two actors, machines 2 and 3, that machine 1 spawns, also under one id;
\* they end by reaching their final state, by stopChild or by the stop of
\* machine 1
NextSiblings ==
  \/ Step(Call("start", 1, "", NoMachine), Start(World, 1, NoInit))
  \/ DoStop(1)
  \/ DoSpawn(1, 2, {"", "a"})
  \/ DoSpawn(1, 3, {"a"})
  \/ \E j \in {2, 3} : DoSend(j, {"END"})
  \/ DoStopChild(1)

SpecSiblings == InitDerive /\ [][NextSiblings]_vars

\* ------------------------------------------------------------------ claims

\* the declared exit, transition and entry actions machine i ran in a call
DeclaredActions(l, i) ==
  SelectSeq(l, LAMBDA e : e.m = i /\ e.k \in {"exit", "transition", "entry"})

\* the log entries of a list of declared actions
Entries(i, k, s, actions) == [n \in 1 .. Len(actions) |-> Entry(i, k, s, actions[n].n)]

\* the candidate that the dispatch of ev chooses in machine i, now
Chosen(i, ev) ==
  LET table == IF Cfg(i).on[ev] # <<>> THEN Cfg(i).on[ev]
               ELSE getStateNode(i, mach[i].value).on[ev]
  IN FirstMatch(table, mach[i].ctx)

\* the call just made was send(ev) on the running machine i, and it was
\* dispatched from the state that was current
Sent(i, ev) ==
  /\ last'.op = "send" /\ last'.m = i
  /\ mach[i].status = "Running"
  /\ log' # <<>> /\ log'[1] = Entry(i, "dispatch", mach[i].value, ev)

\* C1: an event that moves a running machine from state A to a different
\* state B runs the declared exit actions of A, then the actions of the
\* chosen transition, then the declared entry actions of B, and no exit or
\* entry action of another state.
C1_ExitTransitionEntryOrder ==
  [][\A ev \in EventTypes :
       LET a == mach[1].value
           t == Chosen(1, ev)
       IN (Sent(1, ev) /\ t # <<>> /\ t[1].target # "" /\ t[1].target # a)
          => DeclaredActions(log', 1) =
               Entries(1, "exit", a, getStateNode(1, a).exit)
               \o Entries(1, "transition", "", t[1].actions)
               \o Entries(1, "entry", t[1].target, getStateNode(1, t[1].target).entry)]_vars

\* the call just made was a start() that started machine 1
Started == last.op = "start" /\ last.m = 1 /\ log # <<>> /\ log[1].k = "dispatch"

\* the state start() was asked to start in: the override, or config.initial
StartState == IF last.arg # "" THEN last.arg ELSE Cfg(1).initial

\* C2: when a start() that starts the machine returns, value is the
\* configured initial state, or the override, and done is false unless that
\* state is final.
C2_StartValueAndDone ==
  Started =>
    /\ mach[1].value = StartState
    /\ (~getStateNode(1, StartState).final => ~mach[1].done)

\* the positions of the log where machine i enters a final state
FinalEntries(l, i) ==
  {p \in 1 .. Len(l) : l[p].m = i /\ l[p].k = "enter" /\ getStateNode(i, l[p].s).final}

\* C3: each time a final state is entered, done becomes true, every
\* registered done listener is called exactly once for that entry, after the
\* entry actions (and activities) of the state and before the machine is
\* stopped, and the machine is Stopped when the call returns.
C3_FinalEntryNotifiesAndStops ==
  \A p \in FinalEntries(log, 1) :
    /\ mach[1].done
    /\ mach[1].status = "Stopped"
    /\ \A l \in mach[1].doneListeners :
         \E q \in (p + 1) .. Len(log) :
           /\ log[q] = Entry(1, "done", log[p].s, l.n)
           /\ \A r \in 1 .. Len(log) : (r # q /\ log[r].m = 1 /\ log[r].k = "done") => log[r].a # l.n
           /\ \A r \in p .. Len(log) : (log[r].m = 1 /\ log[r].k \in {"entry", "activity"}) => r < q
           /\ \A r \in p .. Len(log) : (log[r].m = 1 /\ log[r].k \in {"stopped", "onStop", "cleanup"}) => q < r

\* a final state was entered with two done listeners registered
C3_Witness == FinalEntries(log, 1) # {} /\ Cardinality(mach[1].doneListeners) = 2

\* C4: when a state that armed after-timers on entry is exited by an event
\* before a timer fires, every one of those timers is cancelled during that
\* exit, so the delayed transition can never fire.
C4_ExitCancelsAfterTimers ==
  [][\A ev \in EventTypes :
       (Sent(1, ev) /\ mach'[1].value # mach[1].value)
       => \A t \in mach[1].timers : t.st = mach[1].value => t \notin mach'[1].timers]_vars

\* C5: an event whose chosen transition targets the current state A runs
\* A's exit actions, the transition actions and A's entry actions, restarts
\* A's activities, re-arms A's timers and leaves value equal to A.
C5_SelfTransitionReenters ==
  [][\A ev \in EventTypes :
       LET a == mach[1].value
           t == Chosen(1, ev)
       IN (Sent(1, ev) /\ t # <<>> /\ t[1].target = a)
          => /\ DeclaredActions(log', 1) =
                  Entries(1, "exit", a, getStateNode(1, a).exit)
                  \o Entries(1, "transition", "", t[1].actions)
                  \o Entries(1, "entry", a, getStateNode(1, a).entry)
             /\ \A k \in 1 .. Len(getStateNode(1, a).activities) :
                  \E q, r \in 1 .. Len(log') :
                    /\ q < r
                    /\ log'[q] = Entry(1, "cleanup", a, getStateNode(1, a).activities[k].n)
                    /\ log'[r] = Entry(1, "activity", a, getStateNode(1, a).activities[k].n)
             /\ mach'[1].value = a]_vars

\* C6: stop() on a machine that is already Stopped changes nothing and runs
\* no onStop action.
C6_StopIdempotent ==
  [][\A i \in Machines :
       (last'.op = "stop" /\ last'.m = i /\ mach[i].status = "Stopped")
       => (mach' = mach /\ log' = <<>>)]_vars

\* stop() was called on a Stopped machine: a stop that stops logs its steps
C6_Witness == last.op = "stop" /\ log = <<>> /\ mach[1].status = "Stopped"

\* C7: after stop() returns on a running machine, value is null, tags is
\* empty, the declared context fields have their configured values, the
\* state and context listener sets and the child registry are empty, every
\* child that was registered and its descendants are Stopped, no cleanup is
\* pending, no timer is armed, status is Stopped and the onStop actions ran
\* once, last.
C7_StopClearsEverything ==
  [][(last'.op = "stop" /\ last'.m = 1 /\ mach[1].status = "Running")
       => /\ mach'[1].value = Null
          /\ mach'[1].tags = {}
          /\ mach'[1].ctx = Cfg(1).context
          /\ mach'[1].stateListeners = {} /\ mach'[1].contextListeners = {}
          /\ \A c \in ChildIds : mach'[1].children[c] = NoMachine
          /\ \A j \in Registered(World, {1}, Cardinality(Machines)) \ {1} :
               mach'[j].status = "Stopped"
          /\ mach'[1].running = EmptyBag
          /\ \A s \in StateNames : mach'[1].activityEvents[s] = EmptyBag
          /\ mach'[1].timers = {}
          /\ mach'[1].status = "Stopped"
          /\ log' # <<>> /\ log'[Len(log')] = Entry(1, "onStop", "", "onStop")
          /\ Cardinality({r \in 1 .. Len(log') : log'[r].m = 1 /\ log'[r].k = "onStop"}) = 1]_vars

\* machine j entered a final state in the call
EntersFinal(l, j) == FinalEntries(l, j) # {}

\* C8: when a spawned child enters a final state it is removed from its
\* parent's registry in the same call, also when that happens inside spawn.
C8_FinalChildDeregistered ==
  [][/\ \A p \in Machines, c \in ChildIds :
          (mach[p].children[c] # NoMachine /\ EntersFinal(log', mach[p].children[c]))
          => mach'[p].children[c] = NoMachine
     /\ (last'.op = "spawn" /\ EntersFinal(log', last'.j))
          => \A c \in ChildIds : mach'[last'.m].children[c] # last'.j]_vars

\* C9: stopChild and sendChild with an unregistered id, and sendParent on a
\* machine without parent, raise an error, leave every field of every
\* machine as it was and run no action.
C9_InvalidTargetThrows ==
  [][\A i \in Machines :
       LET invalid == \/ /\ last'.op \in {"stopChild", "sendChild"}
                         /\ mach[i].children[last'.arg] = NoMachine
                      \/ /\ last'.op = "sendParent"
                         /\ mach[i].parent = NoMachine
       IN (last'.m = i /\ invalid) => (last'.err /\ mach' = mach /\ log' = <<>>)]_vars

\* stopChild threw on a running parent that has a registered child
C9_Witness ==
  /\ last.err /\ last.op = "stopChild"
  /\ mach[last.m].status = "Running"
  /\ \E c \in ChildIds : mach[last.m].children[c] # NoMachine

\* C10: an event sent to a Stopped machine is dropped, whatever the config:
\* value stays null, status Stopped, no action runs, no timer is armed and
\* no activity is started.
C10_StoppedMachineDropsEvents ==
  [][(last'.op = "send" /\ last'.m = 1 /\ mach[1].status = "Stopped")
       => /\ mach'[1].value = Null
          /\ mach'[1].status = "Stopped"
          /\ DeclaredActions(log', 1) = <<>>
          /\ mach'[1].timers \subseteq mach[1].timers
          /\ mach'[1].running = mach[1].running]_vars

\* the call just made built instance 4 from machine 1
Derived == last.op \in {"withContext", "withConfig", "withOptions"}

C12_AfterTimerReturnsToIdle ==
  /\ [][(last'.op = "timer" /\ last'.m = 1)
          => /\ DeclaredActions(log', 1) =
                  Entries(1, "exit", "active", ActiveNode.exit)
                  \o Entries(1, "transition", "", ActiveNode.after[1].actions)
                  \o Entries(1, "entry", "idle", IdleNode.entry)
             /\ mach'[1].value = "idle"
             /\ mach'[1].timers = {}]_vars
  /\ (mach[1].status = "Running" /\ mach[1].value = "active")
       ~> (last.op = "timer" /\ mach[1].value = "idle")

\* the timer armed by the entry of active has fired and moved the machine
\* to idle
C12_Witness ==
  /\ last.op = "timer" /\ mach[1].value = "idle" /\ mach[1].previousValue = "active"
  /\ mach[1].status = "Running" /\ mach[1].timers = {}

\* the table entry that the dispatch of ev in machine i reads, now
Table(i, ev) ==
  IF Cfg(i).on[ev] # <<>> THEN Cfg(i).on[ev] ELSE getStateNode(i, mach[i].value).on[ev]

\* the candidates of the table entry whose guard is true on the context of
\* machine i, now, or that have no guard
Passing(i, ev) ==
  {n \in 1 .. Len(Table(i, ev)) : Table(i, ev)[n].cond = "" \/ GuardMap(Table(i, ev)[n].cond, mach[i].ctx)}

\* C13: for a table entry that is a list of candidates, the transition
\* taken is the first candidate in list order whose guard is true on the
\* current context or that has no guard, never a later one; when no
\* candidate matches, value is unchanged and no exit or entry action runs.
C13_FirstMatchingCandidate ==
  [][\A ev \in EventTypes :
       (Sent(1, ev) /\ Len(Table(1, ev)) > 1)
       => IF Passing(1, ev) = {}
          THEN mach'[1].value = mach[1].value /\ DeclaredActions(log', 1) = <<>>
          ELSE LET c == Table(1, ev)[CHOOSE n \in Passing(1, ev) : \A m \in Passing(1, ev) : n <= m]
               IN /\ SelectSeq(log', LAMBDA e : e.m = 1 /\ e.k = "transition")
                       = Entries(1, "transition", "", c.actions)
                  /\ \E r \in 1 .. Len(log') : log'[r] = Entry(1, "enter", c.target, "")
                  /\ mach'[1].value = IF getStateNode(1, c.target).final THEN Null ELSE c.target]_vars

\* an event whose table entry is a list was dispatched with two candidates
\* passing, and the first was taken
C13_Witness ==
  /\ last.op = "send" /\ mach[1].status = "Running"
  /\ mach[1].value = "active" /\ mach[1].previousValue = "idle"
  /\ \E r \in 1 .. Len(log) : log[r] = Entry(1, "transition", "", "pick.one")

\* the number of entries of kind k that the log holds for activity act
Count(l, i, k, act) ==
  Cardinality({r \in 1 .. Len(l) : l[r] = Entry(i, k, act.st, act.n)})

\* C14: every cleanup returned by an activity is invoked exactly once, no
\* later than the exit of the state whose entry started the activity or the
\* stop of the machine: between operations an activity that still runs
\* belongs to the current state and its cleanup is kept for that state, and
\* no call invokes more cleanups of an activity than were pending or
\* started in it.
C14_CleanupOnceByExit ==
  /\ [](\A act \in BagToSet(mach[1].running) :
          /\ mach[1].value = act.st
          /\ CopiesIn(act, mach[1].activityEvents[act.st]) = CopiesIn(act, mach[1].running))
  /\ [][\A st \in StateNames, n \in {"track", "every"}, k \in 0 .. 1 :
          LET act == [n |-> n, st |-> st, k |-> k]
          IN Count(log', 1, "cleanup", act)
               <= CopiesIn(act, mach[1].running) + Count(log', 1, "activity", act)]_vars

\* the parents whose child registry holds machine j
Holders(j) == {p \in Machines : \E c \in ChildIds : mach[p].children[c] = j}

\* C15: the parent reference of a machine, once a spawn has set it, never
\* changes, and the machine is registered in the child registry of at most
\* one parent.
C15_OneParentForever ==
  /\ [][\A j \in Machines :
          mach[j].parent # NoMachine => mach'[j].parent = mach[j].parent]_vars
  /\ [](\A j \in Machines : Cardinality(Holders(j)) <= 1)

\* the state names that the config of machine i declares
Declared(i) == {s \in StateNames : Cfg(i).states[s].declared}

\* C16, between operations: the value of a machine that was started is
\* null or one declared state name, and it is null only when the status is
\* Stopped
ValueBetweenOperations ==
  \A i \in Machines :
    mach[i].status # "NotStarted" =>
      /\ mach[i].value = Null \/ mach[i].value \in Declared(i)
      /\ mach[i].value = Null => mach[i].status = "Stopped"

\* C16: the value of a machine is null or one declared state name and is
\* null only when the status is Stopped; a Running machine has a non-null
\* value between operations and inside the functions that the operation
\* calls (onStop actions of children, activity cleanups during stop()).
C16_NullValueOnlyWhenStopped ==
  ValueBetweenOperations /\ (last.op \in {"stop", "stopChild"} => ~last.seen)

\* C17: in every reachable state the tags of a machine are the tags that
\* its config declares on the state node named by value, and there are none
\* when value is null (or names no declared state).
C17_TagsFollowValue ==
  \A i \in Machines :
    mach[i].tags = IF mach[i].value \in Declared(i)
                   THEN Cfg(i).states[mach[i].value].tags
                   ELSE {}

\* start with an override put machine 1 in active, whose tags it now has
C17_Witness ==
  /\ last.op = "start" /\ last.m = 1 /\ last.arg = "active"
  /\ mach[1].value = "active" /\ mach[1].tags = {"busy"}

\* C18: when entry actions send events to their own machine, then once the
\* outermost dispatch has returned every armed after-timer and every running
\* activity was started by the entry into the state that is current, and a
\* timer fires only while the state that armed it is current.
C18_ReentrantSendKeepsOwnership ==
  /\ [](opt.entry \in {"BACK", "FINISH"} =>
          /\ \A t \in mach[1].timers : t.st = mach[1].value
          /\ \A act \in BagToSet(mach[1].running) : act.st = mach[1].value)
  /\ [][(opt.entry \in {"BACK", "FINISH"} /\ last'.op = "timer")
          => last'.arg = mach[1].value]_vars

\* C19: start(override) on a machine that is not running runs the entry
\* effects of the override state as a transition into it does: its entry
\* actions run, before the onStart actions; its after-timers are armed and
\* its activities started unless it is final; if it is final the machine
\* becomes done and Stopped.
C19_OverrideRunsEntryEffects ==
  [][(last'.op = "start" /\ last'.m = 1 /\ last'.arg \in Declared(1)
        /\ mach[1].status # "Running")
      => LET s == last'.arg
             node == Cfg(1).states[s]
         IN /\ \A k \in 1 .. Len(node.entry) :
                 \E r \in 1 .. Len(log') :
                   /\ log'[r] = Entry(1, "entry", s, node.entry[k].n)
                   /\ \A q \in 1 .. Len(log') : log'[q].k = "onStart" => r < q
            /\ node.final => mach'[1].done /\ mach'[1].status = "Stopped"
            /\ (~node.final /\ node.after # <<>>) => \E t \in mach'[1].timers : t.st = s
            /\ (~node.final /\ node.activities # <<>>)
                 => \E act \in BagToSet(mach'[1].running) : act.st = s]_vars

\* C20: when the table entry of an event has no candidate whose guard
\* matches, or the chosen transition has no target or targets the current
\* state, only the actions of that transition run: no exit and no entry
\* action runs, value is unchanged, no timer is cancelled or armed and no
\* activity is stopped or started.
C20_NoChangeRunsOnlyTransitionActions ==
  [][\A ev \in EventTypes :
       (/\ Sent(1, ev)
        /\ Table(1, ev) # <<>>
        /\ \/ Chosen(1, ev) = <<>>
           \/ Chosen(1, ev)[1].target \in {"", mach[1].value})
       => /\ DeclaredActions(log', 1)
               = IF Chosen(1, ev) = <<>> THEN <<>>
                 ELSE Entries(1, "transition", "", Chosen(1, ev)[1].actions)
          /\ mach'[1].value = mach[1].value
          /\ mach'[1].timers = mach[1].timers
          /\ mach'[1].delayedEvents = mach[1].delayedEvents
          /\ mach'[1].running = mach[1].running
          /\ mach'[1].activityEvents = mach[1].activityEvents]_vars

\* SELF, whose target is the current state, was sent in active: its action
\* ran, and the timer and the activities of active are as they were
C20_Witness ==
  /\ last.op = "send" /\ mach[1].status = "Running"
  /\ mach[1].value = "active" /\ mach[1].previousValue = "active"
  /\ log = <<Entry(1, "dispatch", "active", "SELF"), Entry(1, "transition", "", "self.do")>>
  /\ mach[1].timers # {} /\ mach[1].running # EmptyBag

\* the recurring timers of machine 1 that are armed
ArmedEvery == {r \in BagToSet(mach[1].running) : r.n = "every"}

\* the entries of the every declaration of active that entering active with
\* the context of machine 1 has to arm: in array form the first in array
\* order whose guard holds, or that has no guard and an interval other than
\* 0, and none when there is no such entry; in map form every key
EveryToArm ==
  LET every == getStateNode(1, "active").every
      ok == {k \in 1 .. Len(every) :
               IF every[k].cond # "" THEN GuardMap(every[k].cond, mach[1].ctx)
               ELSE every[k].interval # 0}
  IN IF ~getStateNode(1, "active").everyArray THEN 1 .. Len(every)
     ELSE {k \in ok : \A m \in ok : k <= m}

\* the call just made entered active, and machine 1 is still there
EnteredActive ==
  /\ \E n \in 1 .. Len(log) : log[n] = Entry(1, "enter", "active", "")
  /\ mach[1].value = "active"

FiresWith(t) == t.tr.cond = "" \/ GuardMap(t.tr.cond, mach[1].ctx)

\* where the callback of timer t, called now, has to take machine 1
FiresTo(t) ==
  IF FiresWith(t) /\ t.tr.target # "" THEN t.tr.target ELSE mach[1].value

\* C22: an after-timer armed on entry to a state fires at most once per
\* entry; when it fires its guard is evaluated against the context at fire
\* time and the transition is run as an event of type after from the state
\* that is current then; if the guard fails or the target is the current
\* state, the value is unchanged and no timer is armed again before the state
\* is entered again
C22_AfterTimerFiresOnce ==
  [][(last'.op = "timer" /\ last'.m = 1) =>
       \E t \in mach[1].timers :
         /\ t.st = mach[1].value /\ mach[1].timers = {t}
         /\ mach'[1].event = "machine.after"
         /\ log'[1] = Entry(1, "dispatch", mach[1].value, "machine.after")
         /\ mach'[1].value = FiresTo(t)
         /\ IF FiresTo(t) = mach[1].value
            THEN /\ mach'[1].timers = {}
                 /\ DeclaredActions(log', 1) =
                      (IF FiresWith(t) THEN Entries(1, "transition", "", t.tr.actions)
                       ELSE <<>>)
            ELSE DeclaredActions(log', 1) =
                   Entries(1, "exit", mach[1].value, getStateNode(1, mach[1].value).exit)
                   \o Entries(1, "transition", "", t.tr.actions)
                   \o Entries(1, "entry", FiresTo(t), getStateNode(1, FiresTo(t)).entry)]_vars

\* the timer armed while isOne held has fired after the context was set to
\* 0: the machine is still in active, no action ran and no timer is armed
C22_Witness ==
  /\ opt.shape = "afterGuard" /\ last.op = "timer"
  /\ mach[1].value = "active" /\ mach[1].ctx.x = 0
  /\ mach[1].timers = {} /\ DeclaredActions(log, 1) = <<>>

\* what the call just made on machine 1 did to the listeners, when it was
\* subscribe, onTransition, onChange or the function subscribe returns
ListenerCalls ==
  /\ (last'.op \in {"subscribe", "onTransition"} /\ last'.m = 1) =>
       /\ mach'[1].stateListeners = mach[1].stateListeners \cup {last'.arg}
       /\ log' = (IF mach[1].status = "Running"
                  THEN <<Entry(1, "listener", mach[1].value, last'.arg)>>
                  ELSE <<>>)
       /\ mach'[1].contextListeners = mach[1].contextListeners
       /\ mach'[1].doneListeners = mach[1].doneListeners
  /\ (last'.op = "onChange" /\ last'.m = 1) =>
       /\ mach'[1].contextListeners = mach[1].contextListeners \cup {last'.arg}
       /\ log' = <<>>
       /\ mach'[1].stateListeners = mach[1].stateListeners
       /\ mach'[1].doneListeners = mach[1].doneListeners
  /\ (last'.op = "unsubscribe" /\ last'.m = 1) =>
       /\ mach'[1].stateListeners = mach[1].stateListeners \ {last'.arg}
       /\ mach'[1].contextListeners = mach[1].contextListeners
       /\ mach'[1].doneListeners = mach[1].doneListeners

\* the call just made, a stop() of machine 1, left no state listener and no
\* context listener and kept the done listeners
StopClearsListeners ==
  /\ mach'[1].stateListeners = {}
  /\ mach'[1].contextListeners = {}
  /\ mach'[1].doneListeners = mach[1].doneListeners

\* C23 as stated: subscribe(listener) and onTransition(listener) add the
\* listener to the state listeners and call it at once, exactly once, with
\* the current snapshot if and only if the status is Running at the time of
\* the call; onChange(listener) never calls the listener at registration;
\* the function returned by subscribe removes exactly that listener; stop()
\* removes all state and context listeners but keeps the done listeners
C23_StopAlwaysClearsListeners ==
  [][/\ ListenerCalls
     /\ (last'.op = "stop" /\ last'.m = 1) => StopClearsListeners]_vars

\* C23, amended: as stated, for a stop() of a machine whose status is not
\* Stopped; a stop() of a stopped machine returns at once and keeps the
\* listeners registered since it was stopped
C23_ListenersRegisteredAndCleared ==
  [][/\ ListenerCalls
     /\ (last'.op = "stop" /\ last'.m = 1 /\ mach[1].status # "Stopped")
          => StopClearsListeners]_vars

\* onTransition(M) was called on the running machine that L had subscribed
\* to: M was called once with the current value, and both are registered
C23_Witness ==
  /\ last.op = "onTransition" /\ last.arg = "M"
  /\ mach[1].status = "Running"
  /\ log = <<Entry(1, "listener", mach[1].value, "M")>>
  /\ mach[1].stateListeners = {"L", "M"}

\* C24: an activity that returns nothing is harmless: leaving the state
\* that started it, and stopping the machine, complete without raising an
\* error, and the cleanups of the other activities of that state are each
\* invoked, so that no activity of a state that was left is running
C24_ActivityWithoutCleanupIsHarmless ==
  /\ ~last.err
  /\ \A r \in BagToSet(mach[1].running) : r.st = mach[1].value

\* C25: previousValue changes only when value changes: after an event sent
\* to the running machine that leaves value unchanged (a transition without
\* target, a transition whose target is the current state, a table entry
\* none of whose guards match), previousValue is what it was before the
\* event
C25_PreviousValueOnlyOnChange ==
  [][(/\ last'.op = "send" /\ last'.m = 1
      /\ mach[1].status = "Running"
      /\ mach'[1].value = mach[1].value)
       => mach'[1].previousValue = mach[1].previousValue]_vars

\* C26: start() runs no exit actions: when machine 1 is started without an
\* override, the only state actions that run are entry actions of the
\* configured initial state; no exit action declared on the initial state or
\* on any other state runs, and no action of a transition
C26_StartRunsNoExitActions ==
  (last.op = "start" /\ last.m = 1 /\ last.arg = "") =>
    \A n \in 1 .. Len(DeclaredActions(log, 1)) :
      /\ DeclaredActions(log, 1)[n].k = "entry"
      /\ DeclaredActions(log, 1)[n].s = Cfg(1).initial

\* C27: the child registry of machine 1 contains exactly the children it
\* spawned that have not reached a final state and have not been stopped: a
\* spawn under an id that is registered never leaves the earlier child
\* running but unregistered, and a child that reaches its final state removes
\* itself only, never another child registered under the same id
C27_RegistryHoldsRunningChildren ==
  /\ \A j \in {2, 3} :
       (mach[j].parent = 1 /\ mach[j].status = "Running")
         => \E c \in ChildIds : mach[1].children[c] = j
  /\ \A c \in ChildIds :
       mach[1].children[c] # NoMachine => mach[mach[1].children[c]].status = "Running"

\* C28: within each run of machine 1 the lifecycle hooks are ordered: the
\* onStart actions run before the onStop actions of the same run, no onStart
\* action runs while the status is Stopped, and when start() returns with
\* status Stopped no subscription to the state or the context store is left
\* attached
C28_LifecycleHooksOrdered ==
  /\ \A n \in 1 .. Len(log) :
       (log[n].m = 1 /\ log[n].k = "onStart")
         => \A m \in 1 .. n - 1 : ~(log[m].m = 1 /\ log[m].k \in {"stopped", "onStop"})
  /\ mach[1].status = "Stopped" => ~mach[1].subscribed

\* the candidates of entry e of an after map that pass their guard on the
\* context of machine 1, now
PassingAfter(e) ==
  {n \in 1 .. Len(e.candidates) :
     e.candidates[n].cond = "" \/ GuardMap(e.candidates[n].cond, mach[1].ctx)}

\* C29: for an after declaration in map form every timer armed on entry has
\* the delay resolved from its own key, whether the value is a target
\* string, a single transition or an array of guarded candidates, and a key
\* whose candidates all fail their guards at entry arms no timer
C29_AfterMapUsesKeyDelay ==
  (EnteredActive /\ getStateNode(1, "active").afterMap # <<>>) =>
    {[delay |-> t.tr.delay, target |-> t.tr.target] : t \in mach[1].timers}
      = {[delay |-> DelayOf(e.key),
          target |-> e.candidates[CHOOSE n \in PassingAfter(e) :
                                    \A m \in PassingAfter(e) : n <= m].target] :
           e \in {f \in {getStateNode(1, "active").afterMap[k] :
                            k \in 1 .. Len(getStateNode(1, "active").afterMap)} :
                    PassingAfter(f) # {}}}

====================================================================================
